---- MODULE Spec2Model ----
(***************************************************************************)
(* A model of the bincode varint codec (src/src/varint/leb128.rs) and of   *)
(* the std adapters (src/src/features/impl_std.rs).                        *)
(*                                                                         *)
(* 128-bit integers do not fit the integers of the model checker, so an    *)
(* integer of width w is a bit vector: a sequence of w bits, least         *)
(* significant bit first (bit i of the integer is element i+1).  Bytes and *)
(* 7-bit groups are ordinary naturals.                                     *)
(***************************************************************************)
EXTENDS Integers, Sequences, FiniteSets, TLC

VARIABLES
    items,      \* varint: the typed integers the writer is to encode, in order
    written,    \* varint: how many of them have been encoded
    stream,     \* varint: the bytes in the sink, later the reader's source
    ends,       \* varint: the length of stream after each encode call
    plan,       \* varint: the integer types the reader decodes, in order
    rpos,       \* varint: the reader's position in stream
    out,        \* varint: the results of the decode calls so far
    checks,     \* varint: TRUE for a build with overflow checks (debug)
    addr,       \* net: the address value given to encode ("none": raw input)
    atype,      \* net: the address type encoded and decoded
    abuf,       \* net: the bytes in the sink, later the reader's source
    ares,       \* net: the result of the decode call ("none" before it)
    apc,        \* net: "init", "encoded" or "decoded"
    mkind,      \* map: the decode implementation that runs
    ksize,      \* map: size_of the key type K (of T for a set), in bytes
    vsize,      \* map: size_of the value type V (0 for a set)
    msrc,       \* map: the source
    mpos,       \* map: the reader's position in msrc
    mlenEnd,    \* map: the reader's position after the element count
    mlen,       \* map: the element count read
    budget,     \* map: the length budget, bytes not yet read or reserved
    reserved,   \* map: what this container still has reserved of the budget
    claimRes,   \* map: "none", then "ok" or "rejected": the container claim
    allocd,     \* map: whether the backing storage has been allocated
    cap,        \* map: the capacity allocated
    mcount,     \* map: the elements inserted
    mpc,        \* map: where the decode call is
    mres,       \* map: the result of the decode call
    lkind,      \* lock: "Mutex" or "RwLock", the type of the value encoded
    guards,     \* lock: the threads that hold a guard of the lock
    poisoned,   \* lock: whether the lock is poisoned
    tpc,        \* lock: where each thread is
    tres,       \* lock: the result of each thread's encode call
    sinks,      \* lock: the bytes each thread's encoder has written
    rkind,      \* io: "IoReader" or "BufReader", the source that reads
    medium,     \* io: the bytes the medium can still supply
    nreq,       \* io: the length of the buffer of the last read call
    avail,      \* io: the bytes the medium could supply when it was called
    iores,      \* io: the result of the last read call
    wmode,      \* sink: "direct" (write calls) or "entry" (encode_into_std_write)
    room,       \* sink: the bytes the underlying writer can still take
    received,   \* sink: the bytes the underlying writer has received
    bytes_written, \* sink: the field of IoWriter
    oksum,      \* sink: the sum of the lengths of the writes that returned Ok
    wbefore,    \* sink: bytes_written when the last write call began
    wcalls,     \* sink: the write calls made
    wres,       \* sink: the result of the last write call
    epc,        \* sink: where encode_into_std_write is
    eres        \* sink: the result of encode_into_std_write

varintVars == <<items, written, stream, ends, plan, rpos, out, checks>>
addrVars == <<addr, atype, abuf, ares, apc>>
mapVars == <<mkind, ksize, vsize, msrc, mpos, mlenEnd, mlen, budget, reserved,
             claimRes, allocd, cap, mcount, mpc, mres>>

lockVars == <<lkind, guards, poisoned, tpc, tres, sinks>>
ioVars == <<rkind, medium, nreq, avail, iores>>
sinkVars == <<wmode, room, received, bytes_written, oksum, wbefore, wcalls,
              wres, epc, eres>>

vars == <<varintVars, addrVars, mapVars, lockVars, ioVars, sinkVars>>

exceptVarint == <<addrVars, mapVars, lockVars, ioVars, sinkVars>>
exceptAddr == <<varintVars, mapVars, lockVars, ioVars, sinkVars>>
exceptMap == <<varintVars, addrVars, lockVars, ioVars, sinkVars>>
exceptLock == <<varintVars, addrVars, mapVars, ioVars, sinkVars>>
exceptIo == <<varintVars, addrVars, mapVars, lockVars, sinkVars>>
exceptSink == <<varintVars, addrVars, mapVars, lockVars, ioVars>>

(***************************************************************************)
(* Widths of the integer types.                                            *)
(***************************************************************************)
U16_BITS == 16
U32_BITS == 32
U64_BITS == 64
USIZE_BITS == 64
U128_BITS == 128

(***************************************************************************)
(* Bit vectors.                                                            *)
(***************************************************************************)
Zeros(n) == [i \in 1..n |-> 0]
Ones(n) == [i \in 1..n |-> 1]

\* bit i (from 0) of a natural below 256
BitOf(n, i) == (n \div (2^i)) % 2

\* `val == 0`, `val == -1`
IsZero(v) == v = Zeros(Len(v))
IsMinusOne(v) == v = Ones(Len(v))

\* `(val & 0x7F) as u8`
Low7(v) == v[1] + 2*v[2] + 4*v[3] + 8*v[4] + 16*v[5] + 32*v[6] + 64*v[7]

\* `val >>= 7` on u128: logical shift
ShrU7(v) == SubSeq(v, 8, Len(v)) \o Zeros(7)

\* `val >>= 7` on i128: arithmetic shift
ShrS7(v) == SubSeq(v, 8, Len(v)) \o [i \in 1..7 |-> v[Len(v)]]

\* `result |= (group as u128) << shift` for 0 <= shift < Len(result): the
\* bits of the group shifted past the width are lost
OrShl(result, group, shift) ==
    LET n == Len(result)
        top == IF shift + 7 <= n THEN shift + 7 ELSE n
    IN  SubSeq(result, 1, shift)
            \o [i \in 1..(top - shift) |->
                    IF BitOf(group, i - 1) = 1 THEN 1 ELSE result[shift + i]]
            \o SubSeq(result, top + 1, n)

\* `result |= !0 << shift` for 0 <= shift < Len(result)
OrOnesFrom(result, shift) ==
    SubSeq(result, 1, shift) \o Ones(Len(result) - shift)

\* `val as u128` from an unsigned type, `val as i128` from a signed one
ZeroExtend(v, n) == v \o Zeros(n - Len(v))
SignExtend(v, n) == v \o [i \in 1..(n - Len(v)) |-> v[Len(v)]]

\* `val as u64` and the like: the low n bits
Truncate(v, n) == SubSeq(v, 1, n)

\* unsigned and two's complement comparison of vectors of one width
LtU(a, b) ==
    \E i \in 1..Len(a) : /\ a[i] < b[i]
                         /\ SubSeq(a, i + 1, Len(a)) = SubSeq(b, i + 1, Len(b))
LtS(a, b) ==
    IF a[Len(a)] # b[Len(b)] THEN a[Len(a)] = 1 ELSE LtU(a, b)

\* uN::MAX, iN::MIN, iN::MAX
UMax(n) == Ones(n)
SMin(n) == [i \in 1..n |-> IF i = n THEN 1 ELSE 0]
SMax(n) == [i \in 1..n |-> IF i = n THEN 0 ELSE 1]

(***************************************************************************)
(* Encoders: the bytes handed to writer.write, in order.                   *)
(***************************************************************************)
RECURSIVE leb128_encode_u128(_)
leb128_encode_u128(val) ==
    LET byte == Low7(val)
        rest == ShrU7(val)
    IN  IF IsZero(rest)
        THEN <<byte>>
        ELSE <<byte + 128>> \o leb128_encode_u128(rest)

leb128_encode_u64(val) == leb128_encode_u128(ZeroExtend(val, U128_BITS))
leb128_encode_u32(val) == leb128_encode_u128(ZeroExtend(val, U128_BITS))
leb128_encode_u16(val) == leb128_encode_u128(ZeroExtend(val, U128_BITS))
leb128_encode_usize(val) == leb128_encode_u128(ZeroExtend(val, U128_BITS))

\* mutant: the termination test ignores the sign bit of the last group
RECURSIVE sleb128_encode_i128_NoSignBit(_)
sleb128_encode_i128_NoSignBit(val) ==
    LET byte == Low7(val)
        rest == ShrS7(val)
    IN  IF IsZero(rest) \/ IsMinusOne(rest)
        THEN <<byte>>
        ELSE <<byte + 128>> \o sleb128_encode_i128_NoSignBit(rest)

RECURSIVE sleb128_encode_i128(_)
sleb128_encode_i128(val) ==
    LET byte == Low7(val)
        rest == ShrS7(val)
    IN  IF \/ IsZero(rest) /\ BitOf(byte, 6) = 0
           \/ IsMinusOne(rest) /\ BitOf(byte, 6) # 0
        THEN <<byte>>
        ELSE <<byte + 128>> \o sleb128_encode_i128(rest)

sleb128_encode_i64(val) == sleb128_encode_i128(SignExtend(val, U128_BITS))
sleb128_encode_i32(val) == sleb128_encode_i128(SignExtend(val, U128_BITS))
sleb128_encode_i16(val) == sleb128_encode_i128(SignExtend(val, U128_BITS))
sleb128_encode_isize(val) == sleb128_encode_i128(SignExtend(val, U128_BITS))

(***************************************************************************)
(* Decoders.  A decode call on source src from position pos yields         *)
(*   kind  "ok", "err" (a DecodeError) or "panic",                         *)
(*   val   the integer returned (<<>> unless ok),                          *)
(*   err   the DecodeError or the panic (NoError when ok),                 *)
(*   pos   the reader's position afterwards: pos - (start) bytes were read.*)
(***************************************************************************)
NoError == [name |-> "none"]
\* DecodeError::Other(msg), and the error of a reader that has run out of bytes
Other(msg) == [name |-> "Other", msg |-> msg]
UnexpectedEnd == [name |-> "UnexpectedEnd"]
Ok(v, p) == [kind |-> "ok", val |-> v, err |-> NoError, pos |-> p]
Err(e, p) == [kind |-> "err", val |-> <<>>, err |-> e, pos |-> p]
Panic(e, p) == [kind |-> "panic", val |-> <<>>, err |-> e, pos |-> p]

\* `reader.read(&mut byte)?` on a one-byte buffer: whether the source has a byte
CanRead(src, pos) == pos < Len(src)

\* mutant: no runaway test, as in the signed decoder
RECURSIVE leb128_decode_u128_loop_NoLimit(_, _, _, _)
leb128_decode_u128_loop_NoLimit(src, pos, result, shift) ==
    IF ~CanRead(src, pos)
    THEN Err(UnexpectedEnd, pos)
    ELSE LET byte == src[pos + 1]
             result2 == OrShl(result, byte % 128, shift % U128_BITS)
         IN  IF byte < 128
             THEN Ok(result2, pos + 1)
             ELSE leb128_decode_u128_loop_NoLimit(src, pos + 1, result2, shift + 7)

RECURSIVE leb128_decode_u128_loop(_, _, _, _)
leb128_decode_u128_loop(src, pos, result, shift) ==
    IF ~CanRead(src, pos)
    THEN Err(UnexpectedEnd, pos)
    ELSE LET byte == src[pos + 1]
             result2 == OrShl(result, byte % 128, shift)
         IN  IF byte < 128
             THEN Ok(result2, pos + 1)
             ELSE IF shift + 7 >= U128_BITS
                  THEN Err(Other("LEB128 overflow"), pos + 1)
                  ELSE leb128_decode_u128_loop(src, pos + 1, result2, shift + 7)

leb128_decode_u128(src, pos) ==
    leb128_decode_u128_loop(src, pos, Zeros(U128_BITS), 0)

\* the narrowing of leb128_decode_u64/u32/u16/usize
NarrowU(r, bits, msg) ==
    IF r.kind # "ok" THEN r
    ELSE IF LtU(ZeroExtend(UMax(bits), U128_BITS), r.val)
         THEN Err(Other(msg), r.pos)
         ELSE Ok(Truncate(r.val, bits), r.pos)

leb128_decode_u64(src, pos) ==
    NarrowU(leb128_decode_u128(src, pos), U64_BITS, "LEB128 overflow u64")
leb128_decode_u32(src, pos) ==
    NarrowU(leb128_decode_u128(src, pos), U32_BITS, "LEB128 overflow u32")
leb128_decode_u16(src, pos) ==
    NarrowU(leb128_decode_u128(src, pos), U16_BITS, "LEB128 overflow u16")
leb128_decode_usize(src, pos) ==
    NarrowU(leb128_decode_u128(src, pos), USIZE_BITS, "LEB128 overflow usize")

\* mutant: the result is not sign-extended
RECURSIVE sleb128_decode_i128_loop_NoSignExtend(_, _, _, _, _)
sleb128_decode_i128_loop_NoSignExtend(src, pos, result, shift, chk) ==
    IF ~CanRead(src, pos)
    THEN Err(UnexpectedEnd, pos)
    ELSE LET byte == src[pos + 1]
         IN  IF shift >= U128_BITS /\ chk
             THEN Panic([name |-> "attempt to shift left with overflow"], pos + 1)
             ELSE LET result2 == OrShl(result, byte % 128, shift % U128_BITS)
                  IN  IF byte < 128
                      THEN Ok(result2, pos + 1)
                      ELSE sleb128_decode_i128_loop_NoSignExtend(
                               src, pos + 1, result2, shift + 7, chk)

\* `x << shift` with shift >= 128 panics in a build with overflow checks and
\* shifts by shift mod 128 in a build without them
RECURSIVE sleb128_decode_i128_loop(_, _, _, _, _)
sleb128_decode_i128_loop(src, pos, result, shift, chk) ==
    IF ~CanRead(src, pos)
    THEN Err(UnexpectedEnd, pos)
    ELSE LET byte == src[pos + 1]
         IN  IF shift >= U128_BITS /\ chk
             THEN Panic([name |-> "attempt to shift left with overflow"], pos + 1)
             ELSE LET result2 == OrShl(result, byte % 128, shift % U128_BITS)
                      shift2 == shift + 7
                  IN  IF byte < 128
                      THEN IF shift2 < U128_BITS /\ BitOf(byte, 6) # 0
                           THEN Ok(OrOnesFrom(result2, shift2), pos + 1)
                           ELSE Ok(result2, pos + 1)
                      ELSE sleb128_decode_i128_loop(src, pos + 1, result2, shift2, chk)

sleb128_decode_i128(src, pos, chk) ==
    sleb128_decode_i128_loop(src, pos, Zeros(U128_BITS), 0, chk)

\* the narrowing of sleb128_decode_i64/i32/i16/isize
NarrowS(r, bits, msg) ==
    IF r.kind # "ok" THEN r
    ELSE IF \/ LtS(r.val, SignExtend(SMin(bits), U128_BITS))
            \/ LtS(SignExtend(SMax(bits), U128_BITS), r.val)
         THEN Err(Other(msg), r.pos)
         ELSE Ok(Truncate(r.val, bits), r.pos)

sleb128_decode_i64(src, pos, chk) ==
    NarrowS(sleb128_decode_i128(src, pos, chk), U64_BITS, "SLEB128 overflow i64")
sleb128_decode_i32(src, pos, chk) ==
    NarrowS(sleb128_decode_i128(src, pos, chk), U32_BITS, "SLEB128 overflow i32")
sleb128_decode_i16(src, pos, chk) ==
    NarrowS(sleb128_decode_i128(src, pos, chk), U16_BITS, "SLEB128 overflow i16")
sleb128_decode_isize(src, pos, chk) ==
    NarrowS(sleb128_decode_i128(src, pos, chk), USIZE_BITS, "SLEB128 overflow isize")

(***************************************************************************)
(* The integer types and the values the writer is given.                   *)
(***************************************************************************)
UnsignedKinds == {"u16", "u32", "u64", "usize", "u128"}
SignedKinds == {"i16", "i32", "i64", "isize", "i128"}
Kinds == UnsignedKinds \cup SignedKinds

KindBits(k) ==
    CASE k \in {"u16", "i16"} -> U16_BITS
      [] k \in {"u32", "i32"} -> U32_BITS
      [] k \in {"u64", "i64"} -> U64_BITS
      [] k \in {"usize", "isize"} -> USIZE_BITS
      [] OTHER -> U128_BITS

\* the natural n < 2^16 as a w-bit integer
FromNat(w, n) == [i \in 1..w |-> IF i <= 16 THEN BitOf(n, i - 1) ELSE 0]
\* 2^k, 2^k - 1, and their complements -2^k - 1 and -2^k, as w-bit patterns
Pow2(w, k) == [i \in 1..w |-> IF i = k + 1 THEN 1 ELSE 0]
LowOnes(w, k) == [i \in 1..w |-> IF i <= k THEN 1 ELSE 0]
NotPow2(w, k) == [i \in 1..w |-> IF i = k + 1 THEN 0 ELSE 1]
HighOnes(w, k) == [i \in 1..w |-> IF i <= k THEN 0 ELSE 1]

\* every w-bit pattern with a single 0/1 boundary or a single odd bit, and 300
FullValues(w) ==
    {FromNat(w, 300)}
        \cup {Pow2(w, k) : k \in 0..(w - 1)}
        \cup {LowOnes(w, k) : k \in 0..w}
        \cup {NotPow2(w, k) : k \in 0..(w - 1)}
        \cup {HighOnes(w, k) : k \in 0..w}

\* 300 (0 for a signed type), -129 (as unsigned: MAX - 128) and the type's extremes
SmallValues(k) ==
    LET w == KindBits(k)
    IN  IF k \in UnsignedKinds
        THEN {FromNat(w, 300), NotPow2(w, 7), UMax(w)}
        ELSE {NotPow2(w, 7), SMin(w), SMax(w)}

Item(k, v) == [kind |-> k, val |-> v]

FullItems == UNION {{Item(k, v) : v \in FullValues(KindBits(k))} : k \in Kinds}
SmallItems == UNION {{Item(k, v) : v \in SmallValues(k)} : k \in Kinds}

\* the sequences over S of length 1..n
RECURSIVE SeqsUpTo(_, _)
SeqsUpTo(S, n) ==
    IF n = 0 THEN {}
    ELSE LET shorter == SeqsUpTo(S, n - 1)
         IN  {<<x>> : x \in S} \cup {Append(q, x) : q \in shorter, x \in S}

(***************************************************************************)
(* The writer encodes the items back-to-back into the sink; the reader     *)
(* then decodes the types of its plan from the same bytes, stopping at the *)
(* first call that does not return Ok.                                     *)
(***************************************************************************)
NoAddr == [none |-> TRUE]
NoResult == [kind |-> "none"]

IdleVarint ==
    /\ items = <<>>
    /\ written = 0
    /\ stream = <<>>
    /\ ends = <<>>
    /\ plan = <<>>
    /\ rpos = 0
    /\ out = <<>>
    /\ checks = FALSE

IdleAddr ==
    /\ addr = NoAddr
    /\ atype = "none"
    /\ abuf = <<>>
    /\ ares = NoResult
    /\ apc = "init"

IdleMap ==
    /\ mkind = "none"
    /\ ksize = 0
    /\ vsize = 0
    /\ msrc = <<>>
    /\ mpos = 0
    /\ mlenEnd = 0
    /\ mlen = 0
    /\ budget = 0
    /\ reserved = 0
    /\ claimRes = "none"
    /\ allocd = FALSE
    /\ cap = 0
    /\ mcount = 0
    /\ mpc = "idle"
    /\ mres = NoResult

IdleLock ==
    /\ lkind = "none"
    /\ guards = {}
    /\ poisoned = FALSE
    /\ tpc = <<>>
    /\ tres = <<>>
    /\ sinks = <<>>

IdleIo ==
    /\ rkind = "none"
    /\ medium = <<>>
    /\ nreq = 0
    /\ avail = 0
    /\ iores = NoResult

IdleSink ==
    /\ wmode = "none"
    /\ room = 0
    /\ received = 0
    /\ bytes_written = 0
    /\ oksum = 0
    /\ wbefore = 0
    /\ wcalls = 0
    /\ wres = NoResult
    /\ epc = "idle"
    /\ eres = NoResult

NextIs(k) == written < Len(items) /\ items[written + 1].kind = k

Wrote(bytes) ==
    /\ stream' = stream \o bytes
    /\ ends' = Append(ends, Len(stream) + Len(bytes))
    /\ written' = written + 1
    /\ UNCHANGED <<items, plan, rpos, out, checks>>
    /\ UNCHANGED exceptVarint

Encode_u16 == NextIs("u16") /\ Wrote(leb128_encode_u16(items[written + 1].val))
Encode_u32 == NextIs("u32") /\ Wrote(leb128_encode_u32(items[written + 1].val))
Encode_u64 == NextIs("u64") /\ Wrote(leb128_encode_u64(items[written + 1].val))
Encode_usize == NextIs("usize") /\ Wrote(leb128_encode_usize(items[written + 1].val))
Encode_u128 == NextIs("u128") /\ Wrote(leb128_encode_u128(items[written + 1].val))
Encode_i16 == NextIs("i16") /\ Wrote(sleb128_encode_i16(items[written + 1].val))
Encode_i32 == NextIs("i32") /\ Wrote(sleb128_encode_i32(items[written + 1].val))
Encode_i64 == NextIs("i64") /\ Wrote(sleb128_encode_i64(items[written + 1].val))
Encode_isize == NextIs("isize") /\ Wrote(sleb128_encode_isize(items[written + 1].val))
Encode_i128 == NextIs("i128") /\ Wrote(sleb128_encode_i128(items[written + 1].val))

CanDecode(k) ==
    /\ written = Len(items)
    /\ Len(out) < Len(plan)
    /\ plan[Len(out) + 1] = k
    /\ \A i \in 1..Len(out) : out[i].kind = "ok"

Decoded(r) ==
    /\ out' = Append(out, r)
    /\ rpos' = r.pos
    /\ UNCHANGED <<items, written, stream, ends, plan, checks>>
    /\ UNCHANGED exceptVarint

Decode_u16 == CanDecode("u16") /\ Decoded(leb128_decode_u16(stream, rpos))
Decode_u32 == CanDecode("u32") /\ Decoded(leb128_decode_u32(stream, rpos))
Decode_u64 == CanDecode("u64") /\ Decoded(leb128_decode_u64(stream, rpos))
Decode_usize == CanDecode("usize") /\ Decoded(leb128_decode_usize(stream, rpos))
Decode_u128 == CanDecode("u128") /\ Decoded(leb128_decode_u128(stream, rpos))
Decode_i16 == CanDecode("i16") /\ Decoded(sleb128_decode_i16(stream, rpos, checks))
Decode_i32 == CanDecode("i32") /\ Decoded(sleb128_decode_i32(stream, rpos, checks))
Decode_i64 == CanDecode("i64") /\ Decoded(sleb128_decode_i64(stream, rpos, checks))
Decode_isize == CanDecode("isize") /\ Decoded(sleb128_decode_isize(stream, rpos, checks))
Decode_i128 == CanDecode("i128") /\ Decoded(sleb128_decode_i128(stream, rpos, checks))

Encodes ==
    \/ Encode_u16 \/ Encode_u32 \/ Encode_u64 \/ Encode_usize \/ Encode_u128
    \/ Encode_i16 \/ Encode_i32 \/ Encode_i64 \/ Encode_isize \/ Encode_i128

Decodes ==
    \/ Decode_u16 \/ Decode_u32 \/ Decode_u64 \/ Decode_usize \/ Decode_u128
    \/ Decode_i16 \/ Decode_i32 \/ Decode_i64 \/ Decode_isize \/ Decode_i128

KindsOf(its) == [i \in 1..Len(its) |-> its[i].kind]

InitVarint(its) ==
    /\ items = its
    /\ written = 0
    /\ stream = <<>>
    /\ ends = <<>>
    /\ plan = KindsOf(its)
    /\ rpos = 0
    /\ out = <<>>
    /\ checks \in BOOLEAN
    /\ IdleAddr
    /\ IdleMap
    /\ IdleLock
    /\ IdleIo
    /\ IdleSink

\* a stream of up to MaxItems integers
MaxItems == 2
InitStream == \E its \in SeqsUpTo(SmallItems, MaxItems) : InitVarint(its)
NextStream == Encodes \/ Decodes
SpecStream == InitStream /\ [][NextStream]_vars

\* one integer out of the full family
InitSingle == \E it \in FullItems : InitVarint(<<it>>)
SpecSingle == InitSingle /\ [][NextStream]_vars

(***************************************************************************)
(* Arbitrary input to the decoders: a run of continuation bytes, then      *)
(* a final byte or the end of the source.                                  *)
(***************************************************************************)
MaxRun == 20
ContBytes == {128, 255}
FinalBytes == {0, 1, 2, 3, 4, 63, 64, 126, 127}
Run(c, n) == [i \in 1..n |-> c]
RawInputs ==
    {Run(c, n) \o t : c \in ContBytes, n \in 0..MaxRun,
                      t \in {<<>>} \cup {<<f>> : f \in FinalBytes}}

InitRaw ==
    /\ items = <<>>
    /\ written = 0
    /\ stream \in RawInputs
    /\ ends = <<>>
    /\ plan \in {<<k>> : k \in Kinds}
    /\ rpos = 0
    /\ out = <<>>
    /\ checks \in BOOLEAN
    /\ IdleAddr
    /\ IdleMap
    /\ IdleLock
    /\ IdleIo
    /\ IdleSink
NextRaw == Decodes
SpecRaw == InitRaw /\ [][NextRaw]_vars

(***************************************************************************)
(* Claims about the varint codec.                                          *)
(***************************************************************************)
\* the bytes the i-th encode call wrote
Segment(i) == SubSeq(stream, (IF i = 1 THEN 0 ELSE ends[i - 1]) + 1, ends[i])

\* C1: every integer of a stream written back-to-back is decoded by the
\* matching decoder to the value written, in order, each call consuming
\* exactly the bytes its encode call wrote; unsigned 300 is [0xAC, 0x02].
C1_StreamRoundTrip ==
    /\ \A i \in 1..Len(out) :
          /\ out[i].kind = "ok"
          /\ out[i].val = items[i].val
          /\ out[i].pos = ends[i]
    /\ rpos = IF out = <<>> THEN 0 ELSE ends[Len(out)]
    /\ \A i \in 1..written :
          (items[i].kind \in UnsignedKinds
              /\ items[i].val = FromNat(KindBits(items[i].kind), 300))
          => Segment(i) = <<172, 2>>

\* C1 witness: a stream of i128::MIN then u128::MAX was written and read back
C1_Witness ==
    /\ Len(items) = 2
    /\ items[1] = Item("i128", SMin(U128_BITS))
    /\ items[2] = Item("u128", UMax(U128_BITS))
    /\ Len(out) = 2
    /\ rpos = Len(stream)

\* v < 2^(7n) for unsigned v
FitsU(v, n) == \A i \in (7 * n + 1)..Len(v) : v[i] = 0
\* -2^(7n-1) <= v < 2^(7n-1) for two's complement v
FitsS(v, n) == \A i \in (7 * n)..Len(v) : v[i] = v[Len(v)]
\* the j-th 7-bit group of v (from 1), v extended by bit ext past its width
GroupOf(v, j, ext) ==
    LET b(i) == IF 7 * (j - 1) + i <= Len(v) THEN v[7 * (j - 1) + i] ELSE ext
    IN  b(1) + 2*b(2) + 4*b(3) + 8*b(4) + 16*b(5) + 32*b(6) + 64*b(7)

MinimalEncoding(it, seg) ==
    LET v == it.val
        n == Len(seg)
        signed == it.kind \in SignedKinds
    IN  /\ n >= 1
        /\ IF signed THEN FitsS(v, n) ELSE FitsU(v, n)
        /\ n = 1 \/ IF signed THEN ~FitsS(v, n - 1) ELSE ~FitsU(v, n - 1)
        /\ \A j \in 1..n :
              /\ seg[j] % 128 = GroupOf(v, j, IF signed THEN v[Len(v)] ELSE 0)
              /\ seg[j] >= 128 <=> j < n
        /\ IsZero(v) => seg = <<0>>
        /\ (signed /\ IsMinusOne(v)) => seg = <<127>>
        /\ (signed /\ v = NotPow2(Len(v), 7)) => n = 2

\* C8: an encode call writes the fewest 7-bit groups that hold the value,
\* low-order group first, the continuation bit on every byte but the last;
\* zero is the byte 0x00, signed -1 the byte 0x7F, signed -129 two bytes.
C8_VarintMinimality ==
    \A i \in 1..written : MinimalEncoding(items[i], Segment(i))

\* C8 witness: -129 was encoded as an i16, in two bytes
C8_Witness ==
    /\ written = 1
    /\ items[1] = Item("i16", NotPow2(U16_BITS, 7))
    /\ Len(stream) = 2

\* the most bytes a 128-bit varint has: ceil(128 / 7)
MaxVarintBytes == (U128_BITS + 6) \div 7

\* src starts with a well-formed varint of n bytes
WellFormed(src, n) ==
    /\ n \in 1..MaxVarintBytes
    /\ n <= Len(src)
    /\ \A j \in 1..(n - 1) : src[j] >= 128
    /\ src[n] < 128
\* the integer the first n bytes of src represent: the sum of each 7-bit
\* group times 2^(7i), as a vector of 7n bits
TrueBits(src, n) ==
    [i \in 1..(7 * n) |-> BitOf(src[((i - 1) \div 7) + 1] % 128, (i - 1) % 7)]
\* that integer, at the least width w or more that holds it
AtWidth(bits, w, signed) ==
    IF Len(bits) >= w THEN bits
    ELSE IF signed THEN SignExtend(bits, w) ELSE ZeroExtend(bits, w)
InRange(bits, w, signed) ==
    LET b == AtWidth(bits, w, signed)
    IN  IF signed THEN \A i \in w..Len(b) : b[i] = b[Len(b)]
        ELSE \A i \in (w + 1)..Len(b) : b[i] = 0

OverflowRejected(k, src, r) ==
    \A n \in 1..MaxVarintBytes :
        WellFormed(src, n) =>
            LET signed == k \in SignedKinds
                w == KindBits(k)
                bits == TrueBits(src, n)
            IN  /\ ~InRange(bits, w, signed) => r.kind = "err"
                /\ r.kind = "ok" =>
                      r.val = Truncate(AtWidth(bits, w, signed), w)

\* C2: a decoder fails with an overflow error when the value the bytes
\* represent lies outside its width, and never returns Ok with another value
\* than the one the bytes represent.
C2_OverflowRejection ==
    out # <<>> => OverflowRejected(plan[1], stream, out[1])

\* at most MaxVarintBytes bytes are read, and MaxVarintBytes continuation
\* bytes are a decode error
RunawayDetected(src, r) ==
    /\ r.pos <= MaxVarintBytes
    /\ (Len(src) >= MaxVarintBytes /\ \A j \in 1..MaxVarintBytes : src[j] >= 128)
          => r.kind = "err" /\ r.pos = MaxVarintBytes

\* C4: the signed decoders read at most 19 bytes and fail with a decode
\* error on 19 continuation bytes.
C4_SignedRunawayDetected ==
    (out # <<>> /\ plan[1] \in SignedKinds) => RunawayDetected(stream, out[1])

\* C5: leb128_decode_u128 (and the decoders that call it) reads at most 19
\* bytes and returns a decode error when the 19th still has its
\* continuation bit set.
C5_UnsignedRunawayDetected ==
    (out # <<>> /\ plan[1] \in UnsignedKinds) =>
        /\ RunawayDetected(stream, out[1])
        /\ out[1].pos = MaxVarintBytes /\ stream[MaxVarintBytes] >= 128
              => out[1].err = Other("LEB128 overflow")

\* C5 witness: leb128_decode_u128 met a source of more than 19 continuation bytes
C5_Witness ==
    /\ out # <<>>
    /\ plan[1] = "u128"
    /\ Len(stream) > MaxVarintBytes
    /\ \A j \in 1..Len(stream) : stream[j] >= 128
    /\ out[1].kind = "err"

(***************************************************************************)
(* Network addresses (impl_std.rs, 292-412).                               *)
(*                                                                         *)
(* An Ipv4Addr or Ipv6Addr is its octets; a SocketAddrV4 is ip and port; a *)
(* SocketAddrV6 is ip, port, flowinfo and scope_id; an IpAddr or           *)
(* SocketAddr is a variant and its inner value.  Equality of these records *)
(* is the equality of the address types, which compares every field.       *)
(***************************************************************************)
\* byte j (from 1) of an integer, and a little-endian integer from bytes
ByteAt(v, j) ==
    LET b(i) == v[8 * (j - 1) + i]
    IN  b(1) + 2*b(2) + 4*b(3) + 8*b(4) + 16*b(5) + 32*b(6) + 64*b(7) + 128*b(8)
FromBytes(bs) == [i \in 1..(8 * Len(bs)) |-> BitOf(bs[((i - 1) \div 8) + 1], (i - 1) % 8)]

\* `decoder.reader().read(&mut buff)?` on a buffer of n bytes
Read(src, pos, n) ==
    IF pos + n > Len(src)
    THEN Err(UnexpectedEnd, pos)
    ELSE Ok(SubSeq(src, pos + 1, pos + n), pos + n)

\* u32::encode / u32::decode of the discriminant: four bytes, fixed width
u32_encode(v) == [j \in 1..4 |-> ByteAt(v, j)]
u32_decode(src, pos) ==
    LET r == Read(src, pos, 4)
    IN  IF r.kind # "ok" THEN r ELSE Ok(FromBytes(r.val), r.pos)

\* u16::encode / u16::decode of a port: the variable-length integer encoding
u16_encode(v) == leb128_encode_u16(v)
u16_decode(src, pos) == leb128_decode_u16(src, pos)

Ipv4Addr_encode(a) == a.octets
Ipv4Addr_decode(src, pos) ==
    LET r == Read(src, pos, 4)
    IN  IF r.kind # "ok" THEN r ELSE Ok([octets |-> r.val], r.pos)

Ipv6Addr_encode(a) == a.octets
Ipv6Addr_decode(src, pos) ==
    LET r == Read(src, pos, 16)
    IN  IF r.kind # "ok" THEN r ELSE Ok([octets |-> r.val], r.pos)

SocketAddrV4_new(ip, port) == [ip |-> ip, port |-> port]
SocketAddrV4_encode(a) == Ipv4Addr_encode(a.ip) \o u16_encode(a.port)
SocketAddrV4_decode(src, pos) ==
    LET ip == Ipv4Addr_decode(src, pos)
        port == u16_decode(src, ip.pos)
    IN  IF ip.kind # "ok" THEN ip
        ELSE IF port.kind # "ok" THEN port
        ELSE Ok(SocketAddrV4_new(ip.val, port.val), port.pos)

SocketAddrV6_new(ip, port, flowinfo, scope_id) ==
    [ip |-> ip, port |-> port, flowinfo |-> flowinfo, scope_id |-> scope_id]
SocketAddrV6_encode(a) == Ipv6Addr_encode(a.ip) \o u16_encode(a.port)
SocketAddrV6_decode(src, pos) ==
    LET ip == Ipv6Addr_decode(src, pos)
        port == u16_decode(src, ip.pos)
    IN  IF ip.kind # "ok" THEN ip
        ELSE IF port.kind # "ok" THEN port
        ELSE Ok(SocketAddrV6_new(ip.val, port.val, 0, 0), port.pos)

V4(x) == [variant |-> "V4", inner |-> x]
V6(x) == [variant |-> "V6", inner |-> x]
\* `Ok(Self::V4(T::decode(decoder)?))`
Wrap(r, variant) ==
    IF r.kind # "ok" THEN r ELSE Ok([variant |-> variant, inner |-> r.val], r.pos)

UnexpectedVariant(found, type_name) ==
    [name |-> "UnexpectedVariant",
     allowed |-> [range |-> TRUE, min |-> 0, max |-> 1],
     found |-> found,
     type_name |-> type_name]

IpAddr_encode(a) ==
    IF a.variant = "V4"
    THEN u32_encode(FromNat(U32_BITS, 0)) \o Ipv4Addr_encode(a.inner)
    ELSE u32_encode(FromNat(U32_BITS, 1)) \o Ipv6Addr_encode(a.inner)

\* mutant: every discriminant but 0 is taken for V6
IpAddr_decode_DefaultV6(src, pos) ==
    LET d == u32_decode(src, pos)
    IN  IF d.kind # "ok" THEN d
        ELSE IF d.val = FromNat(U32_BITS, 0)
             THEN Wrap(Ipv4Addr_decode(src, d.pos), "V4")
             ELSE Wrap(Ipv6Addr_decode(src, d.pos), "V6")

IpAddr_decode(src, pos) ==
    LET d == u32_decode(src, pos)
    IN  IF d.kind # "ok" THEN d
        ELSE IF d.val = FromNat(U32_BITS, 0)
             THEN Wrap(Ipv4Addr_decode(src, d.pos), "V4")
        ELSE IF d.val = FromNat(U32_BITS, 1)
             THEN Wrap(Ipv6Addr_decode(src, d.pos), "V6")
        ELSE Err(UnexpectedVariant(d.val, "IpAddr"), d.pos)

SocketAddr_encode(a) ==
    IF a.variant = "V4"
    THEN u32_encode(FromNat(U32_BITS, 0)) \o SocketAddrV4_encode(a.inner)
    ELSE u32_encode(FromNat(U32_BITS, 1)) \o SocketAddrV6_encode(a.inner)

SocketAddr_decode(src, pos) ==
    LET d == u32_decode(src, pos)
    IN  IF d.kind # "ok" THEN d
        ELSE IF d.val = FromNat(U32_BITS, 0)
             THEN Wrap(SocketAddrV4_decode(src, d.pos), "V4")
        ELSE IF d.val = FromNat(U32_BITS, 1)
             THEN Wrap(SocketAddrV6_decode(src, d.pos), "V6")
        ELSE Err(UnexpectedVariant(d.val, "SocketAddr"), d.pos)

\* the addresses given to encode
Ipv4Addrs == {[octets |-> o] : o \in {<<0, 0, 0, 0>>, <<127, 0, 0, 1>>, <<255, 255, 255, 255>>}}
Ipv6Addrs == {[octets |-> Run(0, 16)], [octets |-> Run(0, 15) \o <<1>>], [octets |-> Run(255, 16)]}
Ports == {FromNat(U16_BITS, 0), FromNat(U16_BITS, 80), UMax(U16_BITS)}
FlowInfos == {0, 1}
ScopeIds == {0, 7}
SocketAddrV4s == {SocketAddrV4_new(ip, port) : ip \in Ipv4Addrs, port \in Ports}
SocketAddrV6s ==
    {SocketAddrV6_new(ip, port, f, sc) :
        ip \in Ipv6Addrs, port \in Ports, f \in FlowInfos, sc \in ScopeIds}
AddrValues(T) ==
    CASE T = "Ipv4Addr" -> Ipv4Addrs
      [] T = "Ipv6Addr" -> Ipv6Addrs
      [] T = "IpAddr" -> {V4(x) : x \in Ipv4Addrs} \cup {V6(x) : x \in Ipv6Addrs}
      [] T = "SocketAddrV4" -> SocketAddrV4s
      [] T = "SocketAddrV6" -> SocketAddrV6s
      [] T = "SocketAddr" -> {V4(x) : x \in SocketAddrV4s} \cup {V6(x) : x \in SocketAddrV6s}
AddrTypes == {"Ipv4Addr", "Ipv6Addr", "IpAddr", "SocketAddrV4", "SocketAddrV6", "SocketAddr"}

\* arbitrary input to the decoders of the two enums: a discriminant of four
\* bytes (or a source too short for one), then up to MaxPayload bytes
MaxPayload == 19
DiscBytes == {0, 1, 2, 255}
RawAddrInputs ==
    {<<b1, b2, b3, b4>> \o Run(1, n) :
        b1 \in DiscBytes, b2 \in DiscBytes, b3 \in DiscBytes, b4 \in DiscBytes,
        n \in 0..MaxPayload}
      \cup {Run(0, n) : n \in 0..3}

AddrEncoded(bytes) ==
    /\ abuf' = bytes
    /\ apc' = "encoded"
    /\ UNCHANGED <<addr, atype, ares>>
    /\ UNCHANGED exceptAddr

AddrDecoded(r) ==
    /\ ares' = r
    /\ apc' = "decoded"
    /\ UNCHANGED <<addr, atype, abuf>>
    /\ UNCHANGED exceptAddr

Encode_Ipv4Addr == apc = "init" /\ atype = "Ipv4Addr" /\ AddrEncoded(Ipv4Addr_encode(addr))
Encode_Ipv6Addr == apc = "init" /\ atype = "Ipv6Addr" /\ AddrEncoded(Ipv6Addr_encode(addr))
Encode_IpAddr == apc = "init" /\ atype = "IpAddr" /\ AddrEncoded(IpAddr_encode(addr))
Encode_SocketAddrV4 == apc = "init" /\ atype = "SocketAddrV4" /\ AddrEncoded(SocketAddrV4_encode(addr))
Encode_SocketAddrV6 == apc = "init" /\ atype = "SocketAddrV6" /\ AddrEncoded(SocketAddrV6_encode(addr))
Encode_SocketAddr == apc = "init" /\ atype = "SocketAddr" /\ AddrEncoded(SocketAddr_encode(addr))
Decode_Ipv4Addr == apc = "encoded" /\ atype = "Ipv4Addr" /\ AddrDecoded(Ipv4Addr_decode(abuf, 0))
Decode_Ipv6Addr == apc = "encoded" /\ atype = "Ipv6Addr" /\ AddrDecoded(Ipv6Addr_decode(abuf, 0))
Decode_IpAddr == apc = "encoded" /\ atype = "IpAddr" /\ AddrDecoded(IpAddr_decode(abuf, 0))
Decode_SocketAddrV4 == apc = "encoded" /\ atype = "SocketAddrV4" /\ AddrDecoded(SocketAddrV4_decode(abuf, 0))
Decode_SocketAddrV6 == apc = "encoded" /\ atype = "SocketAddrV6" /\ AddrDecoded(SocketAddrV6_decode(abuf, 0))
Decode_SocketAddr == apc = "encoded" /\ atype = "SocketAddr" /\ AddrDecoded(SocketAddr_decode(abuf, 0))

InitAddr ==
    /\ \/ /\ atype \in AddrTypes
          /\ addr \in AddrValues(atype)
          /\ abuf = <<>>
          /\ apc = "init"
       \/ /\ atype \in {"IpAddr", "SocketAddr"}
          /\ addr = NoAddr
          /\ abuf \in RawAddrInputs
          /\ apc = "encoded"
    /\ ares = NoResult
    /\ IdleVarint
    /\ IdleMap
    /\ IdleLock
    /\ IdleIo
    /\ IdleSink
NextAddr ==
    \/ Encode_Ipv4Addr \/ Encode_Ipv6Addr \/ Encode_IpAddr
    \/ Encode_SocketAddrV4 \/ Encode_SocketAddrV6 \/ Encode_SocketAddr
    \/ Decode_Ipv4Addr \/ Decode_Ipv6Addr \/ Decode_IpAddr
    \/ Decode_SocketAddrV4 \/ Decode_SocketAddrV6 \/ Decode_SocketAddr
SpecAddr == InitAddr /\ [][NextAddr]_vars

\* C6: decoding the bytes produced by encoding an address yields an address
\* equal to the original.
C6_AddrRoundTrip ==
    (apc = "decoded" /\ addr # NoAddr) =>
        /\ ares.kind = "ok"
        /\ ares.val = addr
        /\ ares.pos = Len(abuf)

\* C7: the decoders of IpAddr and SocketAddr read the 32-bit discriminant
\* first; 0 yields a V4 and 1 a V6 (what encode wrote), and any other value
\* is UnexpectedVariant with found = the value, the type name and allowed =
\* Range 0..1, no byte read past the discriminant, no variant produced.
C7_DiscriminantChecked ==
    /\ (apc # "init" /\ addr # NoAddr /\ atype \in {"IpAddr", "SocketAddr"}) =>
          /\ Len(abuf) >= 4
          /\ FromBytes(SubSeq(abuf, 1, 4))
                = FromNat(U32_BITS, IF addr.variant = "V4" THEN 0 ELSE 1)
    /\ (apc = "decoded" /\ atype \in {"IpAddr", "SocketAddr"} /\ Len(abuf) >= 4) =>
          LET found == FromBytes(SubSeq(abuf, 1, 4))
          IN  /\ found = FromNat(U32_BITS, 0) =>
                    ares.kind = "err" \/ ares.val.variant = "V4"
              /\ found = FromNat(U32_BITS, 1) =>
                    ares.kind = "err" \/ ares.val.variant = "V6"
              /\ found \notin {FromNat(U32_BITS, 0), FromNat(U32_BITS, 1)} =>
                    /\ ares.kind = "err"
                    /\ ares.err = UnexpectedVariant(found, atype)
                    /\ ares.pos = 4

\* C7 witness: a SocketAddr source with discriminant 2 and a payload was decoded
C7_Witness ==
    /\ apc = "decoded"
    /\ atype = "SocketAddr"
    /\ Len(abuf) > 4
    /\ SubSeq(abuf, 1, 4) = <<2, 0, 0, 0>>
    /\ ares.kind = "err"

(***************************************************************************)
(* HashMap and HashSet decode (impl_std.rs, 429-521) and the length budget.*)
(*                                                                         *)
(* The four implementations are the same steps: read the element count,    *)
(* claim count * size_of the element from the budget, allocate, then for   *)
(* each element release size_of the element and decode it.  K, V and T are *)
(* byte arrays [u8; n]: size_of is n and decode reads n bytes.             *)
(***************************************************************************)
LimitExceeded == [name |-> "LimitExceeded"]

\* the length budget: a claim that exceeds it is rejected, else taken from it
claim_bytes_read(b, n) ==
    IF n > b THEN [ok |-> FALSE, budget |-> b] ELSE [ok |-> TRUE, budget |-> b - n]
unclaim_bytes_read(b, n) == b + n
claim_container_read(b, len, size) == claim_bytes_read(b, len * size)

\* an integer below 2^31 as a natural
RECURSIVE BitsToNat(_, _)
BitsToNat(v, i) ==
    IF i > Len(v) \/ i > 31 THEN 0 ELSE v[i] * 2^(i - 1) + BitsToNat(v, i + 1)
\* a natural below 2^31 as a w-bit integer
NatToBits(w, n) == [i \in 1..w |-> IF i <= 31 THEN BitOf(n, i - 1) ELSE 0]

\* decode_slice_len: the element count, an unsigned varint
decode_slice_len(src, pos) ==
    LET r == leb128_decode_u64(src, pos)
    IN  IF r.kind # "ok" THEN r ELSE Ok(BitsToNat(r.val, 1), r.pos)

MapKinds == {"HashMap::decode", "HashMap::borrow_decode"}
SetKinds == {"HashSet::decode", "HashSet::borrow_decode"}
\* size_of::<(K, V)>() for a map, size_of::<T>() for a set
ElemSize == ksize + vsize

MapFailed(e) ==
    /\ mpc' = "err"
    /\ mres' = Err(e, mpos')

\* `let len = crate::de::decode_slice_len(decoder)?;`
ReadLen ==
    /\ mpc = "start"
    /\ LET r == decode_slice_len(msrc, mpos)
           c == claim_bytes_read(budget, r.pos - mpos)
       IN  /\ mpos' = r.pos
           /\ mlenEnd' = r.pos
           /\ IF r.kind # "ok"
              THEN MapFailed(r.err) /\ UNCHANGED <<mlen, budget>>
              ELSE IF ~c.ok
                   THEN MapFailed(LimitExceeded) /\ UNCHANGED <<mlen, budget>>
                   ELSE /\ mlen' = r.val
                        /\ budget' = c.budget
                        /\ mpc' = "claim"
                        /\ UNCHANGED mres
    /\ UNCHANGED <<mkind, ksize, vsize, msrc, reserved, claimRes, allocd, cap, mcount>>
    /\ UNCHANGED exceptMap

\* mutant: the storage is allocated before the claim is made
ClaimContainer_AfterAlloc ==
    /\ mpc = "claim"
    /\ allocd' = TRUE
    /\ cap' = mlen
    /\ LET c == claim_container_read(budget, mlen, ElemSize)
       IN  IF c.ok
           THEN /\ claimRes' = "ok"
                /\ budget' = c.budget
                /\ reserved' = mlen * ElemSize
                /\ mpc' = "loop"
                /\ UNCHANGED <<mpos, mres>>
           ELSE /\ claimRes' = "rejected"
                /\ mpos' = mpos
                /\ MapFailed(LimitExceeded)
                /\ UNCHANGED <<budget, reserved>>
    /\ UNCHANGED <<mkind, ksize, vsize, msrc, mlenEnd, mlen, mcount>>
    /\ UNCHANGED exceptMap

\* `decoder.claim_container_read::<(K, V)>(len)?;`
ClaimContainer ==
    /\ mpc = "claim"
    /\ LET c == claim_container_read(budget, mlen, ElemSize)
       IN  IF c.ok
           THEN /\ claimRes' = "ok"
                /\ budget' = c.budget
                /\ reserved' = mlen * ElemSize
                /\ mpc' = "alloc"
                /\ UNCHANGED <<mpos, mres>>
           ELSE /\ claimRes' = "rejected"
                /\ mpos' = mpos
                /\ MapFailed(LimitExceeded)
                /\ UNCHANGED <<budget, reserved>>
    /\ UNCHANGED <<mkind, ksize, vsize, msrc, mlenEnd, mlen, allocd, cap, mcount>>
    /\ UNCHANGED exceptMap

\* `Self::with_capacity_and_hasher(len, hash_builder)`
AllocContainer ==
    /\ mpc = "alloc"
    /\ allocd' = TRUE
    /\ cap' = mlen
    /\ mpc' = "loop"
    /\ UNCHANGED <<mkind, ksize, vsize, msrc, mpos, mlenEnd, mlen, budget, reserved,
                   claimRes, mcount, mres>>
    /\ UNCHANGED exceptMap

\* mutant: the loop goes on to the element without the release
UnclaimElem_Skip ==
    /\ mpc = "loop"
    /\ mcount < mlen
    /\ mpc' = "key"
    /\ UNCHANGED <<mkind, ksize, vsize, msrc, mpos, mlenEnd, mlen, budget, reserved,
                   claimRes, allocd, cap, mcount, mres>>
    /\ UNCHANGED exceptMap

\* `for _ in 0..len { decoder.unclaim_bytes_read(size_of::<(K, V)>());`
UnclaimElem ==
    /\ mpc = "loop"
    /\ mcount < mlen
    /\ budget' = unclaim_bytes_read(budget, ElemSize)
    /\ reserved' = reserved - ElemSize
    /\ mpc' = "key"
    /\ UNCHANGED <<mkind, ksize, vsize, msrc, mpos, mlenEnd, mlen, claimRes, allocd,
                   cap, mcount, mres>>
    /\ UNCHANGED exceptMap

\* K::decode, V::decode or T::decode of a byte array of n bytes: the bytes
\* read come off the budget
ElemRead(n, next, inserts) ==
    LET c == claim_bytes_read(budget, n)
        r == Read(msrc, mpos, n)
    IN  IF ~c.ok
        THEN mpos' = mpos /\ MapFailed(LimitExceeded) /\ UNCHANGED <<budget, mcount>>
        ELSE IF r.kind # "ok"
             THEN mpos' = mpos /\ MapFailed(r.err) /\ UNCHANGED <<budget, mcount>>
             ELSE /\ mpos' = r.pos
                  /\ budget' = c.budget
                  /\ mcount' = mcount + inserts
                  /\ mpc' = next
                  /\ UNCHANGED mres

\* `let k = K::decode(decoder)?;`
DecodeKey ==
    /\ mpc = "key"
    /\ mkind \in MapKinds
    /\ ElemRead(ksize, "value", 0)
    /\ UNCHANGED <<mkind, ksize, vsize, msrc, mlenEnd, mlen, reserved, claimRes, allocd, cap>>
    /\ UNCHANGED exceptMap

\* `let v = V::decode(decoder)?; map.insert(k, v);`
DecodeValueInsert ==
    /\ mpc = "value"
    /\ ElemRead(vsize, "loop", 1)
    /\ UNCHANGED <<mkind, ksize, vsize, msrc, mlenEnd, mlen, reserved, claimRes, allocd, cap>>
    /\ UNCHANGED exceptMap

\* `let key = T::decode(decoder)?; map.insert(key);`
DecodeElemInsert ==
    /\ mpc = "key"
    /\ mkind \in SetKinds
    /\ ElemRead(ksize, "loop", 1)
    /\ UNCHANGED <<mkind, ksize, vsize, msrc, mlenEnd, mlen, reserved, claimRes, allocd, cap>>
    /\ UNCHANGED exceptMap

\* `Ok(map)`
MapDone ==
    /\ mpc = "loop"
    /\ mcount = mlen
    /\ mpc' = "done"
    /\ mres' = Ok(mcount, mpos)
    /\ UNCHANGED <<mkind, ksize, vsize, msrc, mpos, mlenEnd, mlen, budget, reserved,
                   claimRes, allocd, cap, mcount>>
    /\ UNCHANGED exceptMap

\* the sources: an element count, then some bytes
MaxLen == 3
HugeLen == 10000000
Lens == (0..MaxLen) \cup {HugeLen}
PayloadLens == {0, 1, 2, 4, 8, 16, 24, 48}
Budgets == {4, 40, 100}
ElemSizes == {1, 8}

InitMap ==
    /\ mkind \in MapKinds \cup SetKinds
    /\ ksize \in ElemSizes
    /\ vsize \in IF mkind \in MapKinds THEN ElemSizes ELSE {0}
    /\ msrc \in {leb128_encode_u64(NatToBits(U64_BITS, n)) \o Run(7, p) :
                    n \in Lens, p \in PayloadLens}
    /\ mpos = 0
    /\ mlenEnd = 0
    /\ mlen = 0
    /\ budget \in Budgets
    /\ reserved = 0
    /\ claimRes = "none"
    /\ allocd = FALSE
    /\ cap = 0
    /\ mcount = 0
    /\ mpc = "start"
    /\ mres = NoResult
    /\ IdleVarint
    /\ IdleAddr
    /\ IdleLock
    /\ IdleIo
    /\ IdleSink
NextMap ==
    \/ ReadLen \/ ClaimContainer \/ AllocContainer \/ UnclaimElem
    \/ DecodeKey \/ DecodeValueInsert \/ DecodeElemInsert \/ MapDone
SpecMap == InitMap /\ [][NextMap]_vars

\* C3: in every HashMap and HashSet decode the claim for len elements is
\* made after the count is read and before the storage is allocated or any
\* element is read; a rejected claim is the decode's limit error, with no
\* storage allocated and no byte read past the count.
C3_ClaimBeforeAlloc ==
    /\ (allocd \/ mpos > mlenEnd \/ mcount > 0) => claimRes = "ok"
    /\ mpc \in {"start", "claim"} => claimRes = "none"
    /\ mpc = "alloc" =>
          /\ claimRes = "ok"
          /\ reserved = mlen * ElemSize
          /\ ~allocd
          /\ mpos = mlenEnd
    /\ claimRes = "rejected" =>
          /\ mpc = "err"
          /\ mres.kind = "err"
          /\ mres.err = LimitExceeded
          /\ ~allocd
          /\ cap = 0
          /\ mpos = mlenEnd
          /\ mcount = 0

\* C3 witness: a count of 10,000,000 elements with 4 bytes behind it was rejected
C3_Witness ==
    /\ claimRes = "rejected"
    /\ mlen = HugeLen
    /\ Len(msrc) - mpos = 4
    /\ mpc = "err"

\* the elements whose decode has begun: those inserted, and the one being
\* decoded or whose decode failed (after the claim only an element fails)
Started ==
    IF mpc \in {"key", "value"} \/ (mpc = "err" /\ claimRes = "ok")
    THEN mcount + 1
    ELSE mcount

\* what the container holds reserved is the share of the elements not yet
\* started; with the bytes read and the budget left it makes up the budget
\* the session began with
ReservedIsRest ==
    /\ reserved >= 0
    /\ claimRes = "ok" =>
          /\ Started <= mlen
          /\ reserved = (mlen - Started) * ElemSize
    /\ claimRes # "ok" => reserved = 0
    /\ mpc = "done" => reserved = 0 /\ Started = mlen
    /\ mpc # "err" => budget + reserved + mpos \in Budgets

\* the reservation changes in two steps only: the claim makes it len*s, the
\* head of the loop gives s back to the budget and goes to the element
ReleaseBeforeElem ==
    /\ reserved' # reserved =>
          \/ /\ mpc = "claim"
             /\ claimRes' = "ok"
             /\ reserved = 0
             /\ reserved' = mlen * ElemSize
             /\ budget' = budget - reserved'
          \/ /\ mpc = "loop"
             /\ mpc' = "key"
             /\ reserved' = reserved - ElemSize
             /\ budget' = budget + ElemSize
             /\ mpos' = mpos
    /\ (mpc' = "key" /\ mpc # "key") =>
          /\ mpc = "loop"
          /\ reserved' = reserved - ElemSize
    /\ (claimRes = "ok" /\ mpos' # mpos) =>
          /\ mpc \in {"key", "value"}
          /\ reserved' = reserved

\* C12: in every HashMap and HashSet decode, after the claim of len*s has
\* succeeded, s is released once at the head of each loop round, just before
\* the element is decoded, and nowhere else; when i elements have been
\* started the container holds (len - i)*s reserved, never less than 0, and
\* after a successful decode nothing stays reserved.
C12_ClaimReleaseBalance ==
    /\ []ReservedIsRest
    /\ [][ReleaseBeforeElem]_vars

\* C12 witness: a map of 3 elements of 16 bytes has been decoded, all that
\* was claimed has been released
C12_Witness ==
    /\ mpc = "done"
    /\ mkind \in MapKinds
    /\ mlen = MaxLen
    /\ ElemSize = 16
    /\ mcount = mlen
    /\ reserved = 0

(***************************************************************************)
(* Encode for Mutex<T> and RwLock<T> (impl_std.rs, 173-183 and 206-216).   *)
(*                                                                         *)
(* Encoder threads each call encode on the same lock with an encoder of    *)
(* their own; one more thread takes the lock for writing and either        *)
(* releases it or panics with it held, which poisons it.  The inner value  *)
(* encodes as InnerBytes bytes, written one at a time; a write may fail.   *)
(***************************************************************************)
Encoders == {"e1", "e2"}
Users == {"w"}
Threads == Encoders \cup Users
InnerBytes == 2

LockFailed(lk) == [name |-> "LockFailed", type_name |-> lk]

\* Mutex::lock waits for the lock to be free, RwLock::read for no writer
CanLock(t) ==
    /\ tpc[t] = "idle"
    /\ IF lkind = "Mutex" THEN guards = {} ELSE guards \cap Users = {}

\* `let t = self.lock()...?;` on a Mutex that is not poisoned
Mutex_lock(t) ==
    /\ lkind = "Mutex"
    /\ CanLock(t)
    /\ ~poisoned
    /\ guards' = guards \cup {t}
    /\ tpc' = [tpc EXCEPT ![t] = "locked"]
    /\ UNCHANGED <<lkind, poisoned, tres, sinks>>
    /\ UNCHANGED exceptLock

\* `let t = self.read()...?;` on an RwLock that is not poisoned
RwLock_read(t) ==
    /\ lkind = "RwLock"
    /\ CanLock(t)
    /\ ~poisoned
    /\ guards' = guards \cup {t}
    /\ tpc' = [tpc EXCEPT ![t] = "locked"]
    /\ UNCHANGED <<lkind, poisoned, tres, sinks>>
    /\ UNCHANGED exceptLock

\* `.map_err(|_| EncodeError::LockFailed { .. })?` on a poisoned lock: the
\* guard inside the PoisonError is dropped with it and encode returns
LockPoisoned(t) ==
    /\ CanLock(t)
    /\ poisoned
    /\ tpc' = [tpc EXCEPT ![t] = "done"]
    /\ tres' = [tres EXCEPT ![t] = Err(LockFailed(lkind), sinks[t])]
    /\ UNCHANGED <<lkind, guards, poisoned, sinks>>
    /\ UNCHANGED exceptLock

\* `t.encode(encoder)`: the inner value writes a byte to the sink
InnerWrite(t) ==
    /\ tpc[t] = "locked"
    /\ sinks[t] < InnerBytes
    /\ sinks' = [sinks EXCEPT ![t] = @ + 1]
    /\ UNCHANGED <<lkind, guards, poisoned, tpc, tres>>
    /\ UNCHANGED exceptLock

\* mutant: the guard is not released when the inner encode fails
InnerFail_GuardKept(t) ==
    /\ tpc[t] = "locked"
    /\ sinks[t] < InnerBytes
    /\ tpc' = [tpc EXCEPT ![t] = "done"]
    /\ tres' = [tres EXCEPT ![t] = Err([name |-> "Io"], sinks[t])]
    /\ UNCHANGED <<lkind, guards, poisoned, sinks>>
    /\ UNCHANGED exceptLock

\* `t.encode(encoder)` returns an error of the inner value or of the sink;
\* the guard t is dropped as encode returns
InnerFail(t) ==
    /\ tpc[t] = "locked"
    /\ sinks[t] < InnerBytes
    /\ guards' = guards \ {t}
    /\ tpc' = [tpc EXCEPT ![t] = "done"]
    /\ tres' = [tres EXCEPT ![t] = Err([name |-> "Io"], sinks[t])]
    /\ UNCHANGED <<lkind, poisoned, sinks>>
    /\ UNCHANGED exceptLock

\* `t.encode(encoder)` returns Ok; the guard t is dropped as encode returns
InnerOk(t) ==
    /\ tpc[t] = "locked"
    /\ sinks[t] = InnerBytes
    /\ guards' = guards \ {t}
    /\ tpc' = [tpc EXCEPT ![t] = "done"]
    /\ tres' = [tres EXCEPT ![t] = Ok(<<>>, sinks[t])]
    /\ UNCHANGED <<lkind, poisoned, sinks>>
    /\ UNCHANGED exceptLock

\* another user of the lock takes it for writing
UserLock(u) ==
    /\ tpc[u] = "idle"
    /\ guards = {}
    /\ guards' = {u}
    /\ tpc' = [tpc EXCEPT ![u] = "writing"]
    /\ UNCHANGED <<lkind, poisoned, tres, sinks>>
    /\ UNCHANGED exceptLock

\* and releases it
UserUnlock(u) ==
    /\ tpc[u] = "writing"
    /\ guards' = guards \ {u}
    /\ tpc' = [tpc EXCEPT ![u] = "done"]
    /\ UNCHANGED <<lkind, poisoned, tres, sinks>>
    /\ UNCHANGED exceptLock

\* or panics with it held: the lock is released and poisoned
UserPanic(u) ==
    /\ tpc[u] = "writing"
    /\ guards' = guards \ {u}
    /\ poisoned' = TRUE
    /\ tpc' = [tpc EXCEPT ![u] = "done"]
    /\ UNCHANGED <<lkind, tres, sinks>>
    /\ UNCHANGED exceptLock

InitLock ==
    /\ lkind \in {"Mutex", "RwLock"}
    /\ guards = {}
    /\ poisoned = FALSE
    /\ tpc = [t \in Threads |-> "idle"]
    /\ tres = [t \in Threads |-> NoResult]
    /\ sinks = [t \in Encoders |-> 0]
    /\ IdleVarint
    /\ IdleAddr
    /\ IdleMap
    /\ IdleIo
    /\ IdleSink
NextLock ==
    \/ \E t \in Encoders :
          \/ Mutex_lock(t) \/ RwLock_read(t) \/ LockPoisoned(t)
          \/ InnerWrite(t) \/ InnerFail(t) \/ InnerOk(t)
    \/ \E u \in Users : UserLock(u) \/ UserUnlock(u) \/ UserPanic(u)
SpecLock == InitLock /\ [][NextLock]_vars

\* a thread is inside its encode call from the lock to the return
InCall(t) == tpc[t] = "locked"
GuardScoped == \A t \in Encoders : t \in guards <=> InCall(t)
PoisonReported ==
    \A t \in Encoders :
        /\ (tres[t].kind = "err" /\ tres[t].err.name = "LockFailed") =>
              /\ tres[t].err = LockFailed(lkind)
              /\ sinks[t] = 0
        /\ InCall(t) => ~poisoned
CallOnPoisoned ==
    \A t \in Encoders :
        (poisoned /\ tpc[t] = "idle" /\ tpc'[t] # "idle") =>
            /\ tpc'[t] = "done"
            /\ tres'[t] = Err(LockFailed(lkind), 0)
            /\ sinks'[t] = sinks[t]
            /\ guards' = guards

\* C9: under any interleaving, an encoder thread holds a guard of the Mutex
\* or RwLock exactly while it is inside its own encode call, so the guard is
\* released on every return, also when the inner encode fails; encode on a
\* poisoned lock returns LockFailed naming the type and writes no byte.
C9_ScopedLock ==
    /\ [](GuardScoped /\ PoisonReported)
    /\ [][CallOnPoisoned]_vars

\* C9 witness: on a poisoned RwLock one thread's encode has failed in the
\* inner value after a write, the other's has returned LockFailed
C9_Witness ==
    /\ lkind = "RwLock"
    /\ poisoned
    /\ tres["e1"].kind = "err" /\ tres["e1"].err.name = "Io" /\ sinks["e1"] = 1
    /\ tres["e2"].kind = "err" /\ tres["e2"].err.name = "LockFailed"
    /\ guards = {}

(***************************************************************************)
(* The std sources (impl_std.rs, 50-97).                                   *)
(***************************************************************************)
MaxMedium == 6
MaxRead == 4

\* DecodeError::Io { inner, additional }
IoError(inner, additional) == [name |-> "Io", inner |-> inner, additional |-> additional]

\* Read::read_exact into a buffer of n bytes: at the end of the medium it
\* fails with UnexpectedEof, having taken the bytes there were
read_exact(m, n) ==
    IF Len(m) >= n
    THEN [ok |-> TRUE, bytes |-> SubSeq(m, 1, n), rest |-> SubSeq(m, n + 1, Len(m))]
    ELSE [ok |-> FALSE, bytes |-> <<>>, rest |-> <<>>]

\* the body of both read functions: `read_exact(bytes).map_err(|inner|
\* DecodeError::Io { inner, additional: bytes.len() })`
ReadInto(n) ==
    LET r == read_exact(medium, n)
    IN  /\ iores.kind # "err"
        /\ nreq' = n
        /\ avail' = Len(medium)
        /\ medium' = r.rest
        /\ iores' = IF r.ok THEN Ok(r.bytes, 0)
                    ELSE Err(IoError("UnexpectedEof", n), 0)
        /\ UNCHANGED rkind
        /\ UNCHANGED exceptIo

IoReader_read(n) == rkind = "IoReader" /\ ReadInto(n)
BufReader_read(n) == rkind = "BufReader" /\ ReadInto(n)

InitIo ==
    /\ rkind \in {"IoReader", "BufReader"}
    /\ medium \in {[i \in 1..m |-> i] : m \in 0..MaxMedium}
    /\ nreq = 0
    /\ avail = 0
    /\ iores = NoResult
    /\ IdleVarint
    /\ IdleAddr
    /\ IdleMap
    /\ IdleLock
    /\ IdleSink
NextIo == \E n \in 0..MaxRead : IoReader_read(n) \/ BufReader_read(n)
SpecIo == InitIo /\ [][NextIo]_vars

\* C10: a read of n bytes that fails because the medium can supply only
\* k < n reports additional = n - k; a read that succeeds fills exactly n.
C10_AdditionalIsShortfall ==
    /\ iores.kind = "err" => avail < nreq /\ iores.err.additional = nreq - avail
    /\ iores.kind = "ok" => Len(iores.val) = nreq

(***************************************************************************)
(* The std sink (impl_std.rs, 99-149).  The underlying std::io::Write is   *)
(* a medium that can take `room` more bytes before it fails.               *)
(***************************************************************************)
MaxRoom == 6
MaxWrite == 3
MaxWrites == 4

\* EncodeError::Io { inner, index }
EncodeIoError(inner, index) == [name |-> "Io", inner |-> inner, index |-> index]

\* Write::write_all of n bytes, the outcomes it can have: it calls write
\* until every byte is taken or a call fails, so a failure comes after the
\* medium took some bytes of the buffer (all there was room for when the
\* medium is a `&mut [u8]`), or none
write_all(rm, n) ==
    IF n <= rm
    THEN {[ok |-> TRUE, taken |-> n]}
    ELSE {[ok |-> FALSE, taken |-> k] : k \in 0..rm}

\* the body of IoWriter::write: `self.writer.write_all(bytes).map_err(|inner|
\* EncodeError::Io { inner, index: self.bytes_written })?;
\* self.bytes_written += bytes.len(); Ok(())`
Write(n, r) ==
    /\ wbefore' = bytes_written
    /\ wcalls' = wcalls + 1
    /\ received' = received + r.taken
    /\ room' = room - r.taken
    /\ IF r.ok
       THEN /\ bytes_written' = bytes_written + n
            /\ oksum' = oksum + n
            /\ wres' = Ok(<<>>, 0)
       ELSE /\ wres' = Err(EncodeIoError("io::Error", bytes_written), 0)
            /\ UNCHANGED <<bytes_written, oksum>>
    /\ UNCHANGED wmode
    /\ UNCHANGED exceptSink

\* a caller that holds the IoWriter calls write, after a failure too
IoWriter_write(n) ==
    /\ wmode = "direct"
    /\ wcalls < MaxWrites
    /\ \E r \in write_all(room, n) : Write(n, r)
    /\ UNCHANGED <<epc, eres>>

\* encode_into_std_write: `let writer = IoWriter::new(dst);`
IoWriter_new ==
    /\ wmode = "entry"
    /\ epc = "start"
    /\ bytes_written' = 0
    /\ epc' = "encoding"
    /\ UNCHANGED <<wmode, room, received, oksum, wbefore, wcalls, wres, eres>>
    /\ UNCHANGED exceptSink

\* encode_into_std_write: `val.encode(&mut encoder)?`, one write of the
\* value's encode; the first write that fails ends the call with its error
Encode_write(n) ==
    /\ wmode = "entry"
    /\ epc = "encoding"
    /\ wcalls < MaxWrites
    /\ \E r \in write_all(room, n) :
          /\ Write(n, r)
          /\ IF r.ok
             THEN UNCHANGED <<epc, eres>>
             ELSE /\ epc' = "returned"
                  /\ eres' = Err(EncodeIoError("io::Error", bytes_written), 0)

\* encode_into_std_write: the value's encode has returned Ok:
\* `Ok(encoder.into_writer().bytes_written())`
Encode_return ==
    /\ wmode = "entry"
    /\ epc = "encoding"
    /\ epc' = "returned"
    /\ eres' = Ok(bytes_written, 0)
    /\ UNCHANGED <<wmode, room, received, bytes_written, oksum, wbefore,
                   wcalls, wres>>
    /\ UNCHANGED exceptSink

InitSink ==
    /\ wmode \in {"direct", "entry"}
    /\ room \in 0..MaxRoom
    /\ received = 0
    /\ bytes_written = 0
    /\ oksum = 0
    /\ wbefore = 0
    /\ wcalls = 0
    /\ wres = NoResult
    /\ epc = IF wmode = "entry" THEN "start" ELSE "idle"
    /\ eres = NoResult
    /\ IdleVarint
    /\ IdleAddr
    /\ IdleMap
    /\ IdleLock
    /\ IdleIo
NextSink ==
    \/ \E n \in 0..MaxWrite : IoWriter_write(n) \/ Encode_write(n)
    \/ IoWriter_new
    \/ Encode_return
SpecSink == InitSink /\ [][NextSink]_vars

\* bytes_written is the sum of the lengths of the writes that returned Ok,
\* and a failing write leaves it as it was and reports it as the index
CountsOkWrites ==
    /\ bytes_written = oksum
    /\ wres.kind = "err" =>
          /\ bytes_written = wbefore
          /\ wres.err.index = bytes_written

\* the index of a failing write is the offset committed to the medium
IndexIsCommitted == wres.kind = "err" => wres.err.index = received

\* encode_into_std_write returns, on success, the count of the Ok writes,
\* which is what the underlying writer received
ReturnsCount ==
    eres.kind = "ok" => eres.val = oksum /\ eres.val = received

\* C11: after any sequence of IoWriter::write calls bytes_written is the
\* sum of the lengths of the writes that returned Ok; a failing write leaves
\* bytes_written unchanged and the index of its error is that count, which
\* is the byte offset already committed to the medium; encode_into_std_write
\* returns this count on success, the bytes the underlying writer received.
C11_ByteCountAccounting ==
    /\ CountsOkWrites
    /\ IndexIsCommitted
    /\ ReturnsCount

====
